---- MODULE Spec2Model ----
(***************************************************************************)
(* X Stream & Play -- the playback controller of src/theme.js (the file    *)
(* holds theme.js followed by player.js).  The controller is single        *)
(* threaded: every action below is one handler run to completion.  The     *)
(* playback surface (the <video> element), the adaptive-streaming engine   *)
(* (Hls.js) and the browser timers are the environment; their events are   *)
(* the actions that invoke the handlers the controller registered.         *)
(***************************************************************************)
EXTENDS Integers, Sequences, FiniteSets, TLC

\* ---------------------------------------------------------------- bounds
MaxEngines == 2      \* engine instances constructed in one run
MaxCalls   == 2      \* the call balance is clamped to -MaxCalls..MaxCalls
MaxTracks  == 2      \* audio tracks a manifest lists
MaxTime    == 5      \* positions and range boundaries lie in 0..MaxTime
MaxRanges  == 2      \* ranges video.buffered lists
MaxFrames  == 2      \* totalVideoFrames lies in 0..MaxFrames
BarWidth   == 2      \* the progress bar spans the pointer positions 0..BarWidth

\* ------------------------------------------------------------- URL strings
\* A URL is a sequence of one-character strings.
UrlHlsPlain  == <<"h",":","/","/","x","/","a",".","m","3","u","8">>
UrlHlsSigned == <<"h",":","/","/","x","/","p","?","f","=","a",".","m","3","u","8">>
UrlDash      == <<"h",":","/","/","x","/","a",".","m","p","d">>
UrlMp4       == <<"h",":","/","/","x","/","a",".","m","p","4">>
Urls == {UrlHlsPlain, UrlHlsSigned, UrlDash, UrlMp4}

Letters == {"a","f","h","m","p","t","u","x","M","U"}

\* the URLs the format classification is applied to: absolute and relative,
\* lower and upper case extensions, with and without a query, a fragment or
\* a further path segment
UrlPrefixes == {<<"h",":","/","/","x","/">>, <<"x","/">>, <<>>}
UrlExts     == {<<>>, <<".","m","3","u","8">>, <<".","M","3","U","8">>,
                <<".","m","p","d">>, <<".","M","P","D">>, <<".","m","p","4">>}
UrlSuffixes == {<<>>, <<"?","t","=","1">>, <<"?","t","=","1",".","5">>,
                <<"?","f","=","a",".","m","3","u","8">>,
                <<"?","f","=","a",".","m","p","d">>,
                <<"#","s",".","x">>, <<"/","s",".","t","s">>}
ClassifiedUrls ==
  {pre \o <<"a">> \o ext \o suf :
     pre \in UrlPrefixes, ext \in UrlExts, suf \in UrlSuffixes}

\* String.prototype.toLowerCase on one character
LowerChar(c) ==
  CASE c = "M" -> "m" [] c = "U" -> "u" [] c = "P" -> "p" [] c = "D" -> "d"
    [] OTHER -> c
ToLowerCase(s) == [i \in 1..Len(s) |-> LowerChar(s[i])]

\* index of the first / last occurrence of character c in s, 0 when absent
FirstIndex(s, c) ==
  IF \E i \in 1..Len(s) : s[i] = c
  THEN CHOOSE i \in 1..Len(s) : s[i] = c /\ \A j \in 1..(i-1) : s[j] # c
  ELSE 0
LastIndex(s, c) ==
  IF \E i \in 1..Len(s) : s[i] = c
  THEN CHOOSE i \in 1..Len(s) : s[i] = c /\ \A j \in (i+1)..Len(s) : s[j] # c
  ELSE 0

\* s.split(c).pop() : what follows the last c (all of s when c is absent)
SplitPop(s, c) == SubSeq(s, LastIndex(s, c) + 1, Len(s))
\* s.split(c)[0] : what precedes the first c (all of s when c is absent)
SplitFirst(s, c) ==
  IF FirstIndex(s, c) = 0 THEN s ELSE SubSeq(s, 1, FirstIndex(s, c) - 1)

\* String.prototype.includes
Includes(s, pat) ==
  \E i \in 1..(Len(s) - Len(pat) + 1) : SubSeq(s, i, i + Len(pat) - 1) = pat

\* new URL(url) succeeds only for an absolute URL: letters, then ":"
HasScheme(url) ==
  LET k == FirstIndex(url, ":")
  IN  k > 1 /\ \A i \in 1..(k-1) : url[i] \in Letters

\* new URL(url).pathname of an absolute "scheme://host/path?query#frag"
CutAt(s, c) == SplitFirst(s, c)
Pathname(url) ==
  LET k     == FirstIndex(url, ":")
      rest  == SubSeq(url, k + 1, Len(url))
      noq   == CutAt(CutAt(rest, "?"), "#")
      auth  == Len(noq) >= 2 /\ noq[1] = "/" /\ noq[2] = "/"
      after == IF auth THEN SubSeq(noq, 3, Len(noq)) ELSE noq
      sl    == FirstIndex(after, "/")
  IN  IF ~auth THEN noq
      ELSE IF sl = 0 THEN <<"/">>
      ELSE SubSeq(after, sl, Len(after))

\* _getExt(url)
_getExt(url) ==
  IF HasScheme(url)
  THEN SplitFirst(ToLowerCase(SplitPop(Pathname(url), ".")), "?")
  ELSE SplitFirst(ToLowerCase(SplitPop(url, ".")), "?")

ExtM3u8 == <<"m","3","u","8">>
ExtMpd  == <<"m","p","d">>
DotM3u8 == <<".","m","3","u","8">>
DotMpd  == <<".","m","p","d">>

\* the branch loadVideo takes for a URL
Classify(url) ==
  IF _getExt(url) = ExtM3u8 \/ Includes(url, DotM3u8) THEN "hls"
  ELSE IF _getExt(url) = ExtMpd \/ Includes(url, DotMpd) THEN "dash"
  ELSE "progressive"

\* ------------------------------------------------------------------ state
VARIABLES
  \* module-level state of the controller
  hlsInstance,      \* the active engine instance, 0 for null
  statsInterval,    \* TRUE when it holds an interval handle, FALSE for null
  unmutePending,
  \* the controller's view (DOM classes and text)
  spinnerActive, errorActive, errorMsg, statsPanelActive,
  \* the playback surface (the video element)
  videoSrc,         \* "none", "native" (video.src = url), "engine" (attachMedia)
                    \* or "empty" (video.src = '')
  muted, paused,
  haveData,         \* the surface holds data at the current position
  advanced,         \* currentTime > 0.1
  videoFailed,      \* video.error is set
  \* the adaptive-streaming engine
  constructed,      \* engine instances constructed so far; their ids are 1..constructed
  alive,            \* the ids constructed and not destroyed
  audioTracks,      \* hlsInstance.audioTracks.length
  audioTrack,       \* hlsInstance.audioTrack, -1 when none is selected
  parsed,           \* the active engine has parsed its manifest
  \* the environment
  envOk,            \* the source loaded last can be fetched and decoded
  unmuteTimers,     \* pending timeouts set by _scheduleUnmute
  liveIntervals,    \* live intervals set by openStats
  hideTimers,       \* pending timeouts set by revealControls
  \* the library (src/library.js)
  activeId,         \* TRUE when it names the video being played, FALSE for null
  \* the controls
  isDragging,       \* a drag of the scrubber is in progress
  playedBar,        \* playedBar.style.width and progressThumb.style.left:
                    \* <<n, d>> for (n / d * 100) + '%', <<>> as the page loads
  timeLabel,        \* timeDisplay.textContent: <<position, duration>> as _fmt
                    \* prints them, <<>> as the page loads
  controlsHidden,   \* the controls carry the class 'hidden'
  userMuted,        \* history: the user muted the surface since the last load
                    \* and has not unmuted it
  \* observation of what the handlers did
  calls,            \* the engine methods the last handler called, in order
  recoverBalance,   \* recoverMediaError() calls so far, minus the fatal media
                    \* errors handled so far with an engine active
  threw,            \* the last handler ended in a TypeError
  last              \* the last handler that ran and its input

ctlVars  == <<hlsInstance, statsInterval, unmutePending>>
viewVars == <<spinnerActive, errorActive, errorMsg, statsPanelActive>>
surfVars == <<videoSrc, muted, paused, haveData, advanced, videoFailed>>
engVars  == <<constructed, alive, audioTracks, audioTrack, parsed>>
envVars  == <<envOk, unmuteTimers, liveIntervals, hideTimers>>
libVars  == <<activeId>>
uiVars   == <<isDragging, playedBar, timeLabel, controlsHidden>>
obsVars  == <<calls, recoverBalance, threw, last>>
vars == <<ctlVars, viewVars, surfVars, engVars, envVars, libVars, uiVars, userMuted,
          obsVars>>

NoMsg == <<"", "">>
\* op: the handler; kind: the branch it took; info: the input it read;
\* stale: an engine event from an instance that is not the active one
Ev(op, kind, info, stale) == [op |-> op, kind |-> kind, info |-> info, stale |-> stale]

Init ==
  /\ hlsInstance = 0 /\ statsInterval = FALSE /\ unmutePending = FALSE
  /\ spinnerActive = FALSE /\ errorActive = FALSE /\ errorMsg = NoMsg
  /\ statsPanelActive = FALSE
  /\ videoSrc = "none" /\ muted = FALSE /\ paused = TRUE
  /\ haveData = FALSE /\ advanced = FALSE /\ videoFailed = FALSE
  /\ constructed = 0 /\ alive = {} /\ audioTracks = 0 /\ audioTrack = -1
  /\ parsed = FALSE
  /\ envOk = TRUE /\ unmuteTimers = 0 /\ liveIntervals = 0 /\ hideTimers = 0
  /\ activeId = FALSE
  /\ isDragging = FALSE /\ playedBar = <<>> /\ timeLabel = <<>>
  /\ controlsHidden = FALSE /\ userMuted = FALSE
  /\ calls = <<>> /\ recoverBalance = 0
  /\ threw = FALSE
  /\ last = Ev("init", "", <<>>, FALSE)

\* the balance is kept within -MaxCalls..MaxCalls
Clamp(x) == IF x > MaxCalls THEN MaxCalls ELSE IF x < 0 - MaxCalls THEN 0 - MaxCalls ELSE x

\* ----------------------------------------------------------------- helpers
\* showError(msg): the text shown
ShowErrorText(msg) == IF msg = NoMsg THEN <<"Could not load video.", "">> ELSE msg

\* (mutant: the active engine is dropped without being destroyed)
AliveAfterDestroy_Leak(h, al) == al

\* _destroyHls: the engines left alive once the active one is destroyed
AliveAfterDestroy(h, al) == IF h # 0 THEN al \ {h} ELSE al

\* (mutant: closeStats leaves the interval running)
IntervalsAfterClose_Leak(handle, n) == n

\* closeStats: clearInterval(statsInterval) on the intervals that are live
IntervalsAfterClose(handle, n) == IF handle THEN n - 1 ELSE n

\* _loadHls: the delivery path for an HLS URL under the capability probes
HlsPath(defined, supported, native) ==
  IF ~defined THEN (IF native THEN "native" ELSE "fatal")
  ELSE IF ~supported THEN "native"
  ELSE "engine"

\* the classification of the URLs the model loads
KindOf == [u \in Urls |-> Classify(u)]

\* (mutant: every URL is handed to _loadHls)
LoadPath_HlsOnly(url, defined, supported, native) == HlsPath(defined, supported, native)

\* loadVideo: the delivery path for a URL.  The capability probes are read
\* by _loadHls at each load: defined is typeof Hls !== 'undefined', supported
\* is Hls.isSupported(), native is the truth of
\* video.canPlayType('application/vnd.apple.mpegurl').
LoadPath(url, defined, supported, native) ==
  IF KindOf[url] = "hls" THEN HlsPath(defined, supported, native)
  ELSE "native"

Probes(defined, supported, native) ==
  [defined |-> defined, supported |-> supported, native |-> native]
NoProbes == Probes(FALSE, FALSE, FALSE)

\* (mutant: the progressive branch does not unmute)
MutedAtAttach_Always(kind) == TRUE

\* video.muted when loadVideo sets the source on the surface or hands it to
\* the engine: set at line 104, cleared again at line 116 on the progressive
\* branch, before video.src is assigned
MutedAtAttach(kind) == kind # "progressive"

\* loadVideo(url, title).  playOk: the surface accepts the play() request;
\* ok: the source can be fetched and decoded.
loadVideo(url, defined, supported, native, playOk, ok) ==
  LET path == LoadPath(url, defined, supported, native)
      kind == KindOf[url]
  IN
  \* inputs the load does not read are fixed
  /\ kind # "hls" => Probes(defined, supported, native) = NoProbes
  /\ ~defined => ~supported
  /\ path # "native" => ~playOk
  /\ path = "fatal" => ok
  /\ path = "engine" => constructed < MaxEngines
  \* _destroyHls(); clearStats(); hideError(); showSpinner()
  /\ alive' = IF path = "engine"
              THEN AliveAfterDestroy(hlsInstance, alive) \cup {constructed + 1}
              ELSE AliveAfterDestroy(hlsInstance, alive)
  /\ statsPanelActive' = FALSE
  /\ liveIntervals' = IntervalsAfterClose(statsInterval, liveIntervals)
  /\ statsInterval' = FALSE
  /\ errorActive' = (path = "fatal")
  /\ spinnerActive' = (path # "fatal")
  /\ errorMsg' = IF path = "fatal"
                 THEN ShowErrorText(<<"HLS.js failed to load. Check your connection.", "">>)
                 ELSE errorMsg
  \* video.muted = true, undone on the progressive branch
  /\ muted' = MutedAtAttach(kind)
  /\ videoSrc' = IF path = "fatal" THEN "none" ELSE path
  \* video.load() resets the surface; play() un-pauses it when accepted
  /\ paused' = IF path = "native" THEN ~playOk ELSE TRUE
  /\ haveData' = FALSE /\ advanced' = FALSE /\ videoFailed' = FALSE
  /\ hlsInstance' = IF path = "engine" THEN constructed + 1 ELSE 0
  /\ constructed' = IF path = "engine" THEN constructed + 1 ELSE constructed
  /\ audioTracks' = 0 /\ audioTrack' = -1 /\ parsed' = FALSE
  /\ envOk' = ok
  /\ threw' = FALSE
  /\ calls' = (IF hlsInstance # 0 THEN <<"destroy">> ELSE <<>>)
              \o (IF path = "engine" THEN <<"new Hls">> ELSE <<>>)
  /\ last' = Ev("load", path,
                <<kind, Probes(defined, supported, native), MutedAtAttach(kind)>>, FALSE)
  /\ userMuted' = FALSE
  /\ UNCHANGED <<unmutePending, unmuteTimers, hideTimers, uiVars,
                 recoverBalance>>

\* --------------------------------------------------------- engine events
\* In src/theme.js the closing brace of loadVideo is missing and the
\* AUDIO_TRACK_LOADED registration (lines 182-186) stands after the closing
\* brace of _loadHls.  The model reads the three registrations as made by
\* _loadHls on the instance it has just constructed.
\*
\* An engine instance calls the handlers registered on it by _loadHls.  The
\* handlers read the module variable hlsInstance, not the instance that
\* emitted the event.  e is the emitting instance: the active one, or one a
\* later load destroyed whose event was still on its way.
Engines == 1..constructed
IsStale(e) == e # hlsInstance
\* The handlers never read which instance emitted the event, so one destroyed
\* instance stands for all of them.
StaleEmitters ==
  IF Engines \ {hlsInstance} = {} THEN {}
  ELSE {CHOOSE x \in Engines \ {hlsInstance} : TRUE}

ErrorTypes == {"networkError", "mediaError", "otherError"}
\* data.details: absent, or one of the engine's detail strings
Details    == {"undefined", "keySystemNoKeys", "internalException"}

\* the data of the ERROR events the model delivers: the details string only
\* matters on the branch that shows it
ErrorData ==
  {[fatal |-> f, type |-> t, details |-> "undefined"] : f \in BOOLEAN, t \in ErrorTypes}
  \cup {[fatal |-> TRUE, type |-> "otherError", details |-> d] : d \in Details}

\* (mutant: the network case is missing from the switch)
ErrorAction_NoReload(fatal, type) ==
  IF ~fatal THEN "none"
  ELSE IF type = "mediaError" THEN "recoverMediaError"
  ELSE "showError"

\* (mutant: a media error restarts the load instead of recovering)
ErrorAction_MediaReloads(fatal, type) ==
  IF ~fatal THEN "none"
  ELSE IF type \in {"networkError", "mediaError"} THEN "startLoad"
  ELSE "showError"

\* (mutant: the handler does not test data.fatal)
ErrorAction_IgnoresFatal(fatal, type) ==
  IF type = "networkError" THEN "startLoad"
  ELSE IF type = "mediaError" THEN "recoverMediaError"
  ELSE "showError"

\* the branch the Hls.Events.ERROR handler takes
ErrorAction(fatal, type) ==
  IF ~fatal THEN "none"
  ELSE IF type = "networkError" THEN "startLoad"
  ELSE IF type = "mediaError" THEN "recoverMediaError"
  ELSE "showError"

\* (mutant: no fallback for an absent detail string)
FatalText_NoFallback(details) == <<"HLS fatal error: ", details>>

\* 'HLS fatal error: ' + (data.details || 'unknown')
FatalText(details) ==
  <<"HLS fatal error: ", IF details = "undefined" THEN "unknown" ELSE details>>

\* (mutant: the handler leaves the audio track as the manifest gives it)
ForceTrackOnManifest_Keeps(nTracks, cur) == cur

\* the MANIFEST_PARSED handler forces the audio track to 0
ForceTrackOnManifest(nTracks, cur) == IF nTracks > 0 THEN 0 ELSE cur

\* the AUDIO_TRACK_LOADED handler forces the audio track to 0
ForceTrackOnLoaded(nTracks, cur) == IF cur < 0 /\ nTracks > 0 THEN 0 ELSE cur

\* Hls.Events.MANIFEST_PARSED from instance e; the manifest lists n audio
\* tracks of which a is selected (-1: none); playOk: play() is accepted.
ManifestParsed(e, n, a, playOk) ==
  LET stale == IsStale(e)
      nT    == IF stale THEN audioTracks ELSE n
      cur   == IF stale THEN audioTrack ELSE a
  IN
  /\ e \in Engines
  /\ ~stale => (~parsed /\ envOk)
  /\ a < n
  \* the tracks of a destroyed instance are never read
  /\ stale => (n = 0 /\ a = -1)
  /\ IF hlsInstance = 0
     THEN \* hlsInstance.audioTracks on null
          /\ threw' = TRUE
          /\ UNCHANGED <<audioTracks, audioTrack, parsed, muted, paused>>
     ELSE /\ threw' = FALSE
          /\ audioTracks' = nT
          /\ audioTrack' = ForceTrackOnManifest(nT, cur)
          /\ parsed' = (parsed \/ ~stale)
          /\ muted' = FALSE
          /\ paused' = (paused /\ ~playOk)
  /\ calls' = <<>>
  /\ last' = Ev("manifestParsed", IF cur < 0 THEN "noneActive" ELSE "active",
                <<playOk, cur>>, stale)
  /\ UNCHANGED <<ctlVars, viewVars, videoSrc, haveData, advanced, videoFailed,
                 constructed, alive, envVars,
                 libVars, uiVars, userMuted, recoverBalance>>

\* Hls.Events.AUDIO_TRACK_LOADED from instance e; n tracks are now listed.
AudioTrackLoaded(e, n) ==
  LET stale == IsStale(e)
      nT    == IF stale THEN audioTracks ELSE n
      cur   == IF stale \/ audioTrack < n THEN audioTrack ELSE -1
  IN
  /\ e \in Engines
  /\ ~stale => parsed
  /\ stale => n = 0
  /\ IF hlsInstance = 0
     THEN /\ threw' = TRUE
          /\ UNCHANGED <<audioTracks, audioTrack>>
     ELSE /\ threw' = FALSE
          /\ audioTracks' = nT
          /\ audioTrack' = ForceTrackOnLoaded(nT, cur)
  /\ calls' = <<>>
  /\ last' = Ev("audioTrackLoaded", "", <<>>, stale)
  /\ UNCHANGED <<ctlVars, viewVars, surfVars, constructed, alive, parsed, envVars,
                 libVars, uiVars, userMuted, recoverBalance>>

\* Hls.Events.ERROR from instance e.
EngineError(e, fatal, type, details) ==
  LET stale == IsStale(e)
      act   == ErrorAction(fatal, type)
      call  == act \in {"startLoad", "recoverMediaError"}
  IN
  /\ e \in Engines
  /\ threw' = (call /\ hlsInstance = 0)
  /\ calls' = IF call /\ hlsInstance # 0 THEN <<act>> ELSE <<>>
  /\ recoverBalance' =
       IF hlsInstance = 0 THEN recoverBalance
       ELSE Clamp(recoverBalance
                  + (IF act = "recoverMediaError" THEN 1 ELSE 0)
                  - (IF fatal /\ type = "mediaError" THEN 1 ELSE 0))
  /\ IF act = "showError"
     THEN /\ spinnerActive' = FALSE
          /\ errorActive' = TRUE
          /\ errorMsg' = ShowErrorText(FatalText(details))
     ELSE UNCHANGED <<spinnerActive, errorActive, errorMsg>>
  /\ last' = Ev("engineError", IF fatal THEN type ELSE "nonFatal",
                IF act = "showError" THEN <<details>> ELSE <<type>>, stale)
  /\ UNCHANGED <<ctlVars, statsPanelActive, surfVars, engVars, envVars, libVars, uiVars, userMuted>>

\* -------------------------------------------------------- surface events
\* (mutant: no unmutePending guard)
SchedulesTimer_Always(pending) == TRUE

\* _scheduleUnmute: whether a timer is set
SchedulesTimer(pending) == ~pending

\* (mutant: showSpinner also removes the error overlay)
ErrorAfterShowSpinner_Clears(err) == FALSE

\* showSpinner: the error overlay is left as it is
ErrorAfterShowSpinner(err) == err

\* the surface holds a media resource
HasSource == videoSrc \in {"native", "engine"}

Playable == /\ HasSource /\ ~videoFailed /\ envOk
            /\ (videoSrc = "engine" => parsed)

\* 'canplay' and 'loadeddata': hideSpinner
EvDataReady(ev) ==
  /\ Playable /\ ~haveData
  /\ haveData' = TRUE
  /\ spinnerActive' = FALSE
  /\ threw' = FALSE /\ calls' = <<>>
  /\ last' = Ev("other", "", <<>>, FALSE)
  /\ UNCHANGED <<ctlVars, errorActive, errorMsg, statsPanelActive,
                 videoSrc, muted, paused, advanced, videoFailed, engVars,
                 envVars, libVars, uiVars, userMuted, recoverBalance>>

\* 'waiting': showSpinner
EvWaiting ==
  /\ HasSource /\ ~videoFailed /\ ~paused /\ haveData
  /\ haveData' = FALSE
  /\ spinnerActive' = TRUE
  /\ errorActive' = ErrorAfterShowSpinner(errorActive)
  /\ threw' = FALSE /\ calls' = <<>>
  /\ last' = Ev("waiting", "", <<>>, FALSE)
  /\ UNCHANGED <<ctlVars, errorMsg, statsPanelActive,
                 videoSrc, muted, paused, advanced, videoFailed, engVars,
                 envVars, libVars, uiVars, userMuted, recoverBalance>>

\* 'playing': hideSpinner(); hideError(); _setPlayIcon(false); _scheduleUnmute()
EvPlaying ==
  /\ Playable /\ ~paused /\ haveData
  /\ spinnerActive' = FALSE
  /\ errorActive' = FALSE
  /\ unmutePending' = TRUE
  /\ unmuteTimers' = IF SchedulesTimer(unmutePending) THEN unmuteTimers + 1 ELSE unmuteTimers
  /\ threw' = FALSE /\ calls' = <<>>
  /\ last' = Ev("playing", IF SchedulesTimer(unmutePending) THEN "scheduled" ELSE "skipped",
                <<>>, FALSE)
  /\ UNCHANGED <<hlsInstance, statsInterval, errorMsg, statsPanelActive, surfVars,
                 engVars, envOk, liveIntervals, hideTimers,
                 libVars, uiVars, userMuted, recoverBalance>>

\* 'play': _setPlayIcon(false); _scheduleUnmute()
EvPlay ==
  /\ HasSource /\ ~paused
  /\ unmutePending' = TRUE
  /\ unmuteTimers' = IF SchedulesTimer(unmutePending) THEN unmuteTimers + 1 ELSE unmuteTimers
  /\ threw' = FALSE /\ calls' = <<>>
  /\ last' = Ev("play", IF SchedulesTimer(unmutePending) THEN "scheduled" ELSE "skipped",
                <<>>, FALSE)
  /\ UNCHANGED <<hlsInstance, statsInterval, spinnerActive, errorActive, errorMsg,
                 statsPanelActive, surfVars, engVars, envOk, liveIntervals, hideTimers,
                 libVars, uiVars, userMuted, recoverBalance>>

\* 'ended': the surface pauses at the end of the media (the handler only swaps
\* the play icon, as the 'pause' handler does; the icon is not modelled)
EvEnded ==
  /\ Playable /\ ~paused /\ haveData /\ advanced
  /\ paused' = TRUE
  /\ threw' = FALSE /\ calls' = <<>>
  /\ last' = Ev("other", "", <<>>, FALSE)
  /\ UNCHANGED <<ctlVars, spinnerActive, errorActive, errorMsg, statsPanelActive,
                 videoSrc, muted, haveData, advanced, videoFailed, engVars,
                 envVars, libVars, uiVars, userMuted, recoverBalance>>

\* the text _onVideoError shows for video.error (code 0: video.error is null)
ErrorCodes == 0..5

VideoErrorText(code) ==
  CASE code = 0 -> NoMsg
    [] code = 1 -> <<"Playback aborted.", "">>
    [] code = 2 -> <<"Network error. Check the URL and your connection.", "">>
    [] code = 3 -> <<"Decoding error. Format may be unsupported.", "">>
    [] code = 4 -> <<"Source not supported or URL is invalid.", "">>
    [] OTHER    -> <<"Unknown error.", "">>

\* 'error': _onVideoError.  The surface fails on a resource it cannot fetch or
\* decode, and on the empty src the library sets (code 4).
EvError(code) ==
  /\ ~videoFailed
  /\ \/ /\ HasSource
        /\ videoSrc = "engine" => parsed
        /\ ~envOk \/ haveData
     \/ /\ videoSrc = "empty"
        /\ code = 4
  /\ videoFailed' = TRUE
  /\ haveData' = FALSE
  /\ spinnerActive' = FALSE
  /\ errorActive' = TRUE
  /\ errorMsg' = ShowErrorText(VideoErrorText(code))
  /\ threw' = FALSE /\ calls' = <<>>
  /\ last' = Ev("error", "", <<code>>, FALSE)
  /\ UNCHANGED <<ctlVars, statsPanelActive, videoSrc, muted, paused,
                 advanced, engVars, envVars,
                 libVars, uiVars, userMuted, recoverBalance>>

\* playback moves the position past 0.1 s
TimeAdvances ==
  /\ Playable /\ ~paused /\ haveData /\ ~advanced
  /\ advanced' = TRUE
  /\ threw' = FALSE /\ calls' = <<>>
  /\ last' = Ev("other", "", <<>>, FALSE)
  /\ UNCHANGED <<ctlVars, viewVars, videoSrc, muted, paused, haveData, videoFailed,
                 engVars, envVars,
                 libVars, uiVars, userMuted, recoverBalance>>

\* ----------------------------------------------------------------- timers
\* the timeout set by _scheduleUnmute expires
UnmuteTimerFires ==
  /\ unmuteTimers > 0
  /\ unmuteTimers' = unmuteTimers - 1
  /\ muted' = IF ~paused /\ advanced THEN FALSE ELSE muted
  /\ unmutePending' = FALSE
  /\ threw' = FALSE /\ calls' = <<>>
  /\ last' = Ev("other", "", <<>>, FALSE)
  /\ UNCHANGED <<hlsInstance, statsInterval, viewVars, videoSrc, paused, haveData,
                 advanced, videoFailed, engVars, envOk, liveIntervals, hideTimers,
                 libVars, uiVars, userMuted, recoverBalance>>

\* ----------------------------------------------------------- user actions
\* togglePlayPause(); playOk: play() is accepted
togglePlayPause(playOk) ==
  /\ HasSource
  /\ paused' = IF paused THEN ~playOk ELSE TRUE
  /\ threw' = FALSE /\ calls' = <<>>
  /\ last' = Ev("other", "", <<>>, FALSE)
  /\ UNCHANGED <<ctlVars, viewVars, videoSrc, muted, haveData, advanced, videoFailed,
                 engVars, envVars,
                 libVars, uiVars, userMuted, recoverBalance>>

\* click on the mute button, key M: video.muted = !video.muted
toggleMute ==
  /\ muted' = ~muted
  /\ userMuted' = ~muted
  /\ threw' = FALSE /\ calls' = <<>>
  /\ last' = Ev("toggleMute", "", <<>>, FALSE)
  /\ UNCHANGED <<ctlVars, viewVars, videoSrc, paused, haveData, advanced, videoFailed,
                 engVars, envVars, libVars, uiVars, recoverBalance>>

\* 'input' on the volume slider: video.volume = parseFloat(volumeSlider.value);
\* video.muted = video.volume === 0.  zero: the slider is at 0
volumeInput(zero) ==
  /\ muted' = zero
  /\ userMuted' = zero
  /\ threw' = FALSE /\ calls' = <<>>
  /\ last' = Ev("volume", "", <<zero>>, FALSE)
  /\ UNCHANGED <<ctlVars, viewVars, videoSrc, paused, haveData, advanced, videoFailed,
                 engVars, envVars, libVars, uiVars, recoverBalance>>

\* revealControls ('mousemove', 'touchstart' on the container, 'mouseleave'
\* on the controls): clearTimeout(hideTimer), and a new timeout while playing
revealControls ==
  /\ controlsHidden' = FALSE
  /\ hideTimers' = IF ~paused THEN 1 ELSE 0
  /\ threw' = FALSE /\ calls' = <<>>
  /\ last' = Ev("revealControls", "", <<>>, FALSE)
  /\ UNCHANGED <<ctlVars, viewVars, surfVars, engVars, envOk, unmuteTimers,
                 liveIntervals, libVars, isDragging, playedBar, timeLabel,
                 userMuted, recoverBalance>>

\* 'mouseleave' on the container: if (!video.paused) the controls are hidden
HiddenOnLeave(p, hidden) == IF ~p THEN TRUE ELSE hidden

\* 'mouseleave' on the container
containerMouseLeave ==
  /\ controlsHidden' = HiddenOnLeave(paused, controlsHidden)
  /\ threw' = FALSE /\ calls' = <<>>
  /\ last' = Ev("containerLeave", "", <<>>, FALSE)
  /\ UNCHANGED <<ctlVars, viewVars, surfVars, engVars, envVars, libVars,
                 isDragging, playedBar, timeLabel, userMuted, recoverBalance>>

\* 'mouseenter' on the controls: clearTimeout(hideTimer)
controlsMouseEnter ==
  /\ hideTimers' = 0
  /\ threw' = FALSE /\ calls' = <<>>
  /\ last' = Ev("other", "", <<>>, FALSE)
  /\ UNCHANGED <<ctlVars, viewVars, surfVars, engVars, envOk, unmuteTimers,
                 liveIntervals, libVars, uiVars, userMuted, recoverBalance>>

\* the timeout set by revealControls expires (it hides the controls)
HideTimerFires ==
  /\ hideTimers > 0
  /\ hideTimers' = hideTimers - 1
  /\ controlsHidden' = TRUE
  /\ threw' = FALSE /\ calls' = <<>>
  /\ last' = Ev("other", "", <<>>, FALSE)
  /\ UNCHANGED <<ctlVars, viewVars, surfVars, engVars, envOk, unmuteTimers,
                 liveIntervals, libVars, isDragging, playedBar, timeLabel,
                 userMuted, recoverBalance>>

\* -------------------------------------------------------------- telemetry
\* video.duration is NaN until the metadata is known, and Infinity for a
\* stream without an end; every position the model reaches lies below
\* Infinity
NaN      == -1
Infinity == 3 * MaxTime + 3

\* video.buffered is a normalised TimeRanges object: a sequence of <<start,
\* end>> with start < end, ascending, no two ranges overlapping or touching.
\* Times are whole numbers of a unit of the media timeline.
None    == [some |-> FALSE, v |-> 0]
Some(x) == [some |-> TRUE, v |-> x]

RECURSIVE BufferAheadFrom(_, _, _)
\* the for loop of _getBufferAhead, from index i
BufferAheadFrom(buffered, ct, i) ==
  IF i > Len(buffered) THEN None
  ELSE IF buffered[i][1] <= ct /\ ct <= buffered[i][2]
       THEN Some(buffered[i][2] - ct)
       ELSE BufferAheadFrom(buffered, ct, i + 1)

\* (mutant: the first range is taken whether or not it holds the position)
_getBufferAhead_FirstRange(buffered, ct) ==
  IF Len(buffered) = 0 THEN None ELSE Some(buffered[1][2] - ct)

\* _getBufferAhead()
_getBufferAhead(buffered, ct) ==
  IF Len(buffered) = 0 THEN None ELSE BufferAheadFrom(buffered, ct, 1)

\* the values video.buffered takes
Boundaries   == (0..MaxTime) \X (0..MaxTime)
NormalRanges ==
  {r \in UNION {[1..n -> Boundaries] : n \in 0..MaxRanges} :
     /\ \A i \in 1..Len(r) : r[i][1] < r[i][2]
     /\ \A i \in 1..(Len(r) - 1) : r[i][2] < r[i+1][1]}

\* a row of the snapshot, and the divider marker
Row(k, v) == <<k, v>>
Divider   == <<"divider", <<>>>>

\* (n / d * 100).toFixed(2), in hundredths of a percent
DropPct(n, d) == (2 * n * 10000 + d) \div (2 * d)

\* (mutant: no test of totalVideoFrames)
FrameRows_NoTotalTest(q) ==
  IF q.hasQuality
  THEN << Divider,
          Row("Total Frames", q.totalVideoFrames),
          Row("Dropped Frames", q.droppedVideoFrames),
          Row("Drop Rate", 0) >>
  ELSE <<>>

\* updateStats: the rows built from the frame-quality introspection
FrameRows(q) ==
  IF q.hasQuality /\ q.totalVideoFrames > 0
  THEN << Divider,
          Row("Total Frames", q.totalVideoFrames),
          Row("Dropped Frames", q.droppedVideoFrames),
          Row("Drop Rate", DropPct(q.droppedVideoFrames, q.totalVideoFrames)) >>
  ELSE <<>>

\* (mutant: no test of hlsInstance)
EngineRows_NoGuard(e) ==
  <<Divider>>
  \o (IF e.level /\ e.bitrate THEN <<Row("Bitrate", "kbps")>> ELSE <<>>)
  \o (IF e.bw = "finite" THEN <<Row("Est. Bandwidth", "kbps")>> ELSE <<>>)

\* updateStats: the rows built from the engine (e.engine: hlsInstance is set)
EngineRows(e) ==
  IF ~e.engine THEN <<>>
  ELSE <<Divider>>
       \o (IF e.level /\ e.bitrate THEN <<Row("Bitrate", "kbps")>> ELSE <<>>)
       \o (IF e.level /\ e.dims THEN <<Row("HLS Level", "wxh")>> ELSE <<>>)
       \o (IF e.level /\ e.audioCodec THEN <<Row("Audio Codec", "codec")>> ELSE <<>>)
       \o (IF e.level /\ e.videoCodec THEN <<Row("Video Codec", "codec")>> ELSE <<>>)
       \o (IF e.bw = "finite" THEN <<Row("Est. Bandwidth", "kbps")>> ELSE <<>>)
       \o (IF e.frag = "len" THEN <<Row("Frag Buffer", "s")>> ELSE <<>>)

\* updateStats: the rows built from navigator.connection
ConnRows(q) ==
  IF ~q.conn THEN <<>>
  ELSE (IF q.downlink THEN <<Divider, Row("Network Downlink", "Mbps")>> ELSE <<>>)
       \o (IF q.effectiveType THEN <<Row("Connection Type", "type")>> ELSE <<>>)

\* updateStats(): the rows of the snapshot, in order.  q is what the surface
\* and the browser report, e what the engine reports.
StatsRows(q, e) ==
  LET ahead == _getBufferAhead(q.buffered, q.currentTime)
  IN  << Row("Provider", "X Stream & Play"), Divider >>
      \o (IF q.videoWidth # 0 /\ q.videoHeight # 0
          THEN <<Row("Resolution", <<q.videoWidth, q.videoHeight>>)>> ELSE <<>>)
      \o << Row("Viewport", "wxh") >>
      \o << Row("Playback Rate", "x") >>
      \o (IF q.duration > 0
          THEN <<Row("Time", <<q.currentTime, q.duration>>)>> ELSE <<>>)
      \o (IF ahead.some THEN <<Row("Buffer Health", ahead.v)>> ELSE <<>>)
      \o FrameRows(q)
      \o EngineRows(e)
      \o ConnRows(q)

\* what updateStats reads from the surface and the browser
NoSurfaceStats ==
  [videoWidth |-> 0, videoHeight |-> 0, duration |-> NaN, currentTime |-> 0,
   buffered |-> <<>>, hasQuality |-> FALSE, totalVideoFrames |-> 0,
   droppedVideoFrames |-> 0, conn |-> FALSE, downlink |-> FALSE,
   effectiveType |-> FALSE]
SurfaceStats ==
  {[NoSurfaceStats EXCEPT !.videoWidth = w, !.videoHeight = h, !.duration = d,
                          !.currentTime = b[2], !.buffered = b[1]] :
     w \in {0, 1}, h \in {0, 1}, d \in {NaN, 0, MaxTime},
     b \in {<< <<>>, 0 >>, << << <<0, 2>> >>, 1 >>, << << <<0, 2>> >>, 3 >>}}
  \cup
  {[NoSurfaceStats EXCEPT !.hasQuality = hq, !.totalVideoFrames = f[1],
                          !.droppedVideoFrames = f[2],
                          !.conn = c[1], !.downlink = c[2], !.effectiveType = c[3]] :
     hq \in BOOLEAN,
     f \in {x \in (0..MaxFrames) \X (0..MaxFrames) : x[2] <= x[1]},
     c \in {x \in BOOLEAN \X BOOLEAN \X BOOLEAN : ~x[1] => (~x[2] /\ ~x[3])}}

\* what updateStats reads from the engine: the current level and its fields,
\* bandwidthEstimate and mainForwardBufferInfo
NoEngineStats ==
  [engine |-> FALSE, level |-> FALSE, bitrate |-> FALSE, dims |-> FALSE,
   audioCodec |-> FALSE, videoCodec |-> FALSE, bw |-> "none", frag |-> "none"]
EngineStats ==
  {NoEngineStats}
  \cup
  {[engine |-> TRUE, level |-> l[1], bitrate |-> l[2], dims |-> l[3],
    audioCodec |-> l[4], videoCodec |-> l[5], bw |-> "finite", frag |-> "len"] :
     l \in {x \in BOOLEAN \X BOOLEAN \X BOOLEAN \X BOOLEAN \X BOOLEAN :
              ~x[1] => (~x[2] /\ ~x[3] /\ ~x[4] /\ ~x[5])}}
  \cup
  {[NoEngineStats EXCEPT !.engine = TRUE, !.bw = bw, !.frag = fr] :
     bw \in {"none", "finite", "infinite"}, fr \in {"none", "len", "nolen", "throws"}}

\* what the instance that _destroyHls destroyed would still report: updateStats
\* reads hlsInstance, which is null
DisposedEngineStats ==
  [engine |-> FALSE, level |-> TRUE, bitrate |-> TRUE, dims |-> TRUE,
   audioCodec |-> TRUE, videoCodec |-> TRUE, bw |-> "finite", frag |-> "len"]

\* the snapshots the session specification polls: a bare surface, and one
\* with every source of rows available
FullSurfaceStats ==
  [videoWidth |-> 1, videoHeight |-> 1, duration |-> MaxTime, currentTime |-> 1,
   buffered |-> << <<0, 2>> >>, hasQuality |-> TRUE, totalVideoFrames |-> MaxFrames,
   droppedVideoFrames |-> 1, conn |-> TRUE, downlink |-> TRUE,
   effectiveType |-> TRUE]
FullEngineStats ==
  [engine |-> TRUE, level |-> TRUE, bitrate |-> TRUE, dims |-> TRUE,
   audioCodec |-> TRUE, videoCodec |-> TRUE, bw |-> "finite", frag |-> "len"]

\* updateStats(), called by openStats and by the interval it sets
updateStats(q, e) ==
  /\ e.engine <=> (hlsInstance # 0)
  /\ threw' = FALSE /\ calls' = <<>>
  /\ last' = Ev("updateStats", "", <<q, e, StatsRows(q, e)>>, FALSE)
  /\ UNCHANGED <<ctlVars, viewVars, surfVars, engVars, envVars, libVars, uiVars, userMuted, recoverBalance>>

\* toggleStats(): closeStats() when the panel is open, openStats() otherwise;
\* openStats builds a snapshot and sets the interval
toggleStats(q, e) ==
  /\ e.engine <=> (hlsInstance # 0)
  /\ IF statsPanelActive
     THEN /\ statsPanelActive' = FALSE
          /\ liveIntervals' = IntervalsAfterClose(statsInterval, liveIntervals)
          /\ statsInterval' = FALSE
          /\ last' = Ev("toggleStats", "close", <<>>, FALSE)
     ELSE /\ statsPanelActive' = TRUE
          /\ liveIntervals' = liveIntervals + 1
          /\ statsInterval' = TRUE
          /\ last' = Ev("toggleStats", "open", <<q, e, StatsRows(q, e)>>, FALSE)
  /\ threw' = FALSE /\ calls' = <<>>
  /\ UNCHANGED <<hlsInstance, unmutePending, spinnerActive, errorActive, errorMsg,
                 surfVars, engVars, envOk, unmuteTimers, hideTimers, libVars, uiVars, userMuted,
                 recoverBalance>>

\* closeStats(), bound to the close button of the panel
closeStats ==
  /\ statsPanelActive' = FALSE
  /\ liveIntervals' = IntervalsAfterClose(statsInterval, liveIntervals)
  /\ statsInterval' = FALSE
  /\ threw' = FALSE /\ calls' = <<>>
  /\ last' = Ev("closeStats", "", <<>>, FALSE)
  /\ UNCHANGED <<hlsInstance, unmutePending, spinnerActive, errorActive, errorMsg,
                 surfVars, engVars, envOk, unmuteTimers, hideTimers, libVars, uiVars, userMuted,
                 recoverBalance>>

\* ---------------------------------------------------------- pure functions
\* The functions of the controller applied to inputs drawn from bounded sets.
\* loadVideo's classification of a URL (lines 101-109)
ClassifyUrl(url) ==
  /\ threw' = FALSE /\ calls' = <<>>
  /\ last' = Ev("classify", Classify(url), <<url>>, FALSE)
  /\ UNCHANGED <<ctlVars, viewVars, surfVars, engVars, envVars, libVars, uiVars, userMuted, recoverBalance>>

\* _getBufferAhead() with video.buffered = buffered and video.currentTime = ct
BufferAheadOf(buffered, ct) ==
  /\ threw' = FALSE /\ calls' = <<>>
  /\ last' = Ev("bufferAhead", "", <<buffered, ct, _getBufferAhead(buffered, ct)>>, FALSE)
  /\ UNCHANGED <<ctlVars, viewVars, surfVars, engVars, envVars, libVars, uiVars, userMuted, recoverBalance>>

\* Math.max, Math.min on numbers
Max(a, b) == IF a >= b THEN a ELSE b
Min(a, b) == IF a <= b THEN a ELSE b

\* video.duration || 0
OrZero(d) == IF d = NaN \/ d = 0 THEN 0 ELSE d

\* (mutant: no Math.max(0, ...))
SeekTarget_NoFloor(ct, d, secs) == Min(OrZero(d), ct + secs)

\* seek(secs): the value assigned to video.currentTime
SeekTarget(ct, d, secs) == Max(0, Min(OrZero(d), ct + secs))

\* the durations and positions a seek starts from, and the deltas
Durations == {NaN, Infinity} \cup (0..MaxTime)
Positions == 0..MaxTime
Deltas    == (0 - MaxTime - 1)..(MaxTime + 1)

\* seek(secs) with video.currentTime = ct and video.duration = d
seek(ct, d, secs) ==
  /\ d \in 0..MaxTime => ct <= d
  /\ threw' = FALSE /\ calls' = <<>>
  /\ last' = Ev("seek", "", <<ct, d, secs, SeekTarget(ct, d, secs)>>, FALSE)
  /\ UNCHANGED <<ctlVars, viewVars, surfVars, engVars, envVars, libVars, uiVars, userMuted, recoverBalance>>

\* _onProgress: the width given to bufferBar, <<end, d>> for
\* (end / d * 100) + '%', or None when the handler returns before it sets it
BufferBarWidth(buffered, d) ==
  IF OrZero(d) = 0 \/ Len(buffered) = 0 THEN None
  ELSE Some(<<buffered[Len(buffered)][2], d>>)

\* 'progress' with video.buffered = buffered, video.currentTime = ct and
\* video.duration = d
_onProgress(buffered, ct, d) ==
  /\ d \in 0..MaxTime => ct <= d
  /\ threw' = FALSE /\ calls' = <<>>
  /\ last' = Ev("progress", "", <<buffered, ct, d, BufferBarWidth(buffered, d)>>, FALSE)
  /\ UNCHANGED <<ctlVars, viewVars, surfVars, engVars, envVars, libVars, uiVars,
                 userMuted, recoverBalance>>

\* ------------------------------------------------------------ the scrubber
\* The progress bar spans the pointer positions 0..BarWidth (rect.left = 0,
\* rect.width = BarWidth); the pointer may be outside of it.
Pointers == (0 - 1)..(BarWidth + 1)

\* Math.max(0, Math.min(1, (clientX - rect.left) / rect.width)), as the
\* numerator of a fraction of BarWidth
Ratio(clientX) == Max(0, Min(BarWidth, clientX))

\* !video.duration
NoDuration(d) == d = NaN \/ d = 0

\* what _fmt prints for a time that is not finite
Dash == <<"-">>

\* _fmt(sec) for sec = num / den seconds: <<h, m, s>> of the floored time
_fmt(num, den) ==
  IF num = NaN \/ num = Infinity THEN Dash
  ELSE LET sec == num \div den
       IN  <<sec \div 3600, (sec % 3600) \div 60, sec % 60>>

\* ratio * video.duration, as the numerator of a fraction of BarWidth
\* (0 * Infinity is NaN)
RatioTimes(r, d) ==
  IF d = Infinity THEN (IF r = 0 THEN NaN ELSE Infinity) ELSE r * d

\* (video.currentTime / video.duration) * 100, as <<n, d>>
PlayedPct(ct, d) == IF d = Infinity THEN <<0, 1>> ELSE <<ct, d>>

\* video.duration as the surface reports it: NaN without a source, then
\* unknown, zero, finite or without an end
DurationsNow == IF HasSource THEN {NaN, 0, MaxTime, Infinity} ELSE {NaN}

\* (mutant: no test of isDragging)
TimeUpdateSkips_NoDrag(drag, d) == NoDuration(d)

\* _onTimeUpdate: if (isDragging || !video.duration) return
TimeUpdateSkips(drag, d) == drag \/ NoDuration(d)

\* 'timeupdate' with video.currentTime = ct and video.duration = d
_onTimeUpdate(ct, d) ==
  /\ HasSource
  /\ d \in 0..MaxTime => ct <= d
  /\ IF TimeUpdateSkips(isDragging, d)
     THEN UNCHANGED <<playedBar, timeLabel>>
     ELSE /\ playedBar' = PlayedPct(ct, d)
          /\ timeLabel' = <<_fmt(ct, 1), _fmt(d, 1)>>
  /\ threw' = FALSE /\ calls' = <<>>
  /\ last' = Ev("timeupdate", "", <<ct, d>>, FALSE)
  /\ UNCHANGED <<ctlVars, viewVars, surfVars, engVars, envVars, libVars,
                 isDragging, controlsHidden, userMuted, recoverBalance>>

\* the body of _scrubMove past its guard, with the pointer at clientX
ScrubShows(clientX, d) ==
  /\ playedBar' = <<Ratio(clientX), BarWidth>>
  /\ timeLabel' = IF NoDuration(d) THEN timeLabel
                  ELSE <<_fmt(RatioTimes(Ratio(clientX), d), BarWidth), _fmt(d, 1)>>

\* _scrubStart ('mousedown', 'touchstart' on the progress bar)
_scrubStart(clientX, d) ==
  /\ isDragging' = TRUE
  /\ ScrubShows(clientX, d)
  /\ threw' = FALSE /\ calls' = <<>>
  /\ last' = Ev("scrubStart", "", <<clientX, d>>, FALSE)
  /\ UNCHANGED <<ctlVars, viewVars, surfVars, engVars, envVars, libVars,
                 controlsHidden, userMuted, recoverBalance>>

\* _scrubMove ('mousemove', 'touchmove' on the window; _scrubStart adds the
\* listeners and _scrubEnd removes them)
_scrubMove(clientX, d) ==
  /\ isDragging
  /\ ScrubShows(clientX, d)
  /\ threw' = FALSE /\ calls' = <<>>
  /\ last' = Ev("scrubMove", "", <<clientX, d>>, FALSE)
  /\ UNCHANGED <<ctlVars, viewVars, surfVars, engVars, envVars, libVars,
                 isDragging, controlsHidden, userMuted, recoverBalance>>

\* _scrubEnd ('mouseup', 'touchend' on the window): video.currentTime =
\* ratio * video.duration, a TypeError when the product is not finite
_scrubEnd(clientX, d) ==
  LET target == RatioTimes(Ratio(clientX), d) IN
  /\ isDragging
  /\ isDragging' = FALSE
  /\ threw' = (d = Infinity)
  /\ advanced' = IF NoDuration(d) \/ d = Infinity THEN advanced
                 ELSE 10 * target > BarWidth
  /\ calls' = <<>>
  /\ last' = Ev("scrubEnd", "", <<clientX, d>>, FALSE)
  /\ UNCHANGED <<ctlVars, viewVars, videoSrc, muted, paused, haveData, videoFailed,
                 engVars, envVars, libVars, playedBar, timeLabel, controlsHidden,
                 userMuted, recoverBalance>>

\* ------------------------------------------------------------- the library
\* playVideo(id) of a video the library holds: activeId = id; loadVideo(...)
playVideo(url, defined, supported, native, playOk, ok) ==
  /\ activeId' = TRUE
  /\ loadVideo(url, defined, supported, native, playOk, ok)

\* document.getElementById('videoPlayer').src = '': the surface drops its
\* resource and runs its load algorithm on the empty src, which pauses it and
\* resets its position and its error.  Nothing else is touched.
SrcCleared ==
  /\ videoSrc' = "empty"
  /\ paused' = TRUE /\ haveData' = FALSE /\ advanced' = FALSE /\ videoFailed' = FALSE
  /\ threw' = FALSE /\ calls' = <<>>
  /\ UNCHANGED <<ctlVars, viewVars, muted, engVars, envVars, uiVars, userMuted,
                 recoverBalance>>

\* deleteVideo(id) with activeId === id (the deletion of another video
\* changes the library only)
deleteVideo ==
  /\ activeId
  /\ activeId' = FALSE
  /\ SrcCleared
  /\ last' = Ev("teardown", "deleteVideo", <<>>, FALSE)

\* clearAll() on a library that holds videos, confirmed by the user (addVideo,
\* which touches nothing of the player, refills the library at any time)
clearAll ==
  /\ activeId' = FALSE
  /\ SrcCleared
  /\ last' = Ev("teardown", "clearAll", <<>>, FALSE)

\* ------------------------------------------------------------ specification
Load        == \E url \in Urls, defined \in BOOLEAN, supported \in BOOLEAN,
                  native \in BOOLEAN, playOk \in BOOLEAN, ok \in BOOLEAN :
                  playVideo(url, defined, supported, native, playOk, ok)
\* events of the active engine instance
OnManifest  == \E n \in 0..MaxTracks, a \in -1..(MaxTracks - 1), playOk \in BOOLEAN :
                  ManifestParsed(hlsInstance, n, a, playOk)
OnTrack     == \E n \in 0..MaxTracks : AudioTrackLoaded(hlsInstance, n)
OnEngineErr == \E d \in ErrorData : EngineError(hlsInstance, d.fatal, d.type, d.details)
\* events of an instance that a later load destroyed
StaleManifest  == \E e \in StaleEmitters, playOk \in BOOLEAN : ManifestParsed(e, 0, -1, playOk)
StaleTrack     == \E e \in StaleEmitters : AudioTrackLoaded(e, 0)
StaleEngineErr == \E e \in StaleEmitters, d \in ErrorData :
                     EngineError(e, d.fatal, d.type, d.details)
OnDataReady == \E ev \in {"canplay", "loadeddata"} : EvDataReady(ev)
OnError     == \E code \in ErrorCodes : EvError(code)
Toggle      == \E playOk \in BOOLEAN : togglePlayPause(playOk)

Next ==
  \/ Load
  \/ OnManifest
  \/ OnTrack
  \/ OnEngineErr
  \/ OnDataReady
  \/ EvWaiting
  \/ EvPlaying
  \/ EvPlay
  \/ EvEnded
  \/ OnError
  \/ TimeAdvances
  \/ UnmuteTimerFires
  \/ Toggle

\* The engine delivers events of the active instance only.
Spec == Init /\ [][Next]_vars

\* The engine also delivers events of destroyed instances: an event that was
\* on its way when a load destroyed its instance.
StaleNext ==
  \/ Next
  \/ StaleManifest
  \/ StaleTrack
  \/ StaleEngineErr

StaleSpec == Init /\ [][StaleNext]_vars

\* The session: loads, the telemetry panel, the controls that hide themselves
\* and the library that tears the session down.  The events of the engine and
\* the other events of the surface neither read nor write the engine
\* registry, the timers of the panel and the controls, or the library, and
\* they bring video.paused to no value that togglePlayPause does not.
PolledStats == {<<NoSurfaceStats, NoEngineStats>>, <<FullSurfaceStats, FullEngineStats>>,
                <<FullSurfaceStats, NoEngineStats>>}
ToggleStats == \E in \in PolledStats : toggleStats(in[1], in[2])
\* the interval set by openStats expires
StatsTick   == /\ liveIntervals > 0
               /\ \E in \in PolledStats : updateStats(in[1], in[2])

SessionNext ==
  \/ Load
  \/ Toggle
  \/ OnError
  \/ ToggleStats
  \/ closeStats
  \/ StatsTick
  \/ containerMouseLeave
  \/ revealControls
  \/ controlsMouseEnter
  \/ HideTimerFires
  \/ deleteVideo
  \/ clearAll

SessionSpec == Init /\ [][SessionNext]_vars

\* Telemetry: loads, the panel, and snapshots of everything the surface, the
\* browser and the engine can report.
TelemetryInputs ==
  {<<q, e>> : q \in SurfaceStats, e \in {NoEngineStats, FullEngineStats}}
  \cup {<<FullSurfaceStats, e>> : e \in EngineStats \cup {DisposedEngineStats}}
OpensOrCloses == \E in \in TelemetryInputs : toggleStats(in[1], in[2])
Polls         == /\ liveIntervals > 0
                 /\ \E in \in TelemetryInputs : updateStats(in[1], in[2])

TelemetryNext ==
  \/ Load
  \/ OpensOrCloses
  \/ closeStats
  \/ Polls

TelemetrySpec == Init /\ [][TelemetryNext]_vars

\* The pure functions applied to every input of their bounded domains.
Classifies == \E url \in ClassifiedUrls : ClassifyUrl(url)

Seeks      == \E ct \in Positions, d \in Durations, secs \in Deltas : seek(ct, d, secs)

Buffers    == \E b \in NormalRanges, ct \in Positions : BufferAheadOf(b, ct)

Progresses == \E b \in NormalRanges, ct \in Positions, d \in Durations :
                 _onProgress(b, ct, d)

FunctionNext ==
  \/ Classifies
  \/ Seeks
  \/ Buffers
  \/ Progresses

FunctionSpec == Init /\ [][FunctionNext]_vars

\* Fair delivery of events: the surface delivers the events its state calls
\* for, the active engine reports its manifest once it can fetch it and a
\* fatal network error while it cannot, and a timeout that was set expires.
LiveNetFatal == ~envOk /\ EngineError(hlsInstance, TRUE, "networkError", "undefined")
SurfaceFails == ~envOk /\ OnError

Fairness ==
  /\ WF_vars(OnDataReady)
  /\ WF_vars(EvPlaying)
  /\ WF_vars(EvPlay)
  /\ WF_vars(SurfaceFails)
  /\ WF_vars(OnManifest)
  /\ WF_vars(LiveNetFatal)
  /\ WF_vars(UnmuteTimerFires)

FairSpec == Init /\ [][Next]_vars /\ Fairness

\* ================================================================= claims
IsLoad        == last.op = "load"
IsEngineError == last.op = "engineError"
EngineActive  == hlsInstance # 0

\* The scrubber: loads of a progressive file and of a stream through the
\* engine, 'timeupdate' events and drags of the progress bar.  No other
\* handler reads or writes isDragging, the played bar or the time label.
TimeUpdate == \E ct \in Positions, d \in DurationsNow : _onTimeUpdate(ct, d)
ScrubStart == \E x \in Pointers, d \in DurationsNow : _scrubStart(x, d)
ScrubMove  == \E x \in Pointers, d \in DurationsNow : _scrubMove(x, d)
ScrubEnd   == \E x \in Pointers, d \in DurationsNow : _scrubEnd(x, d)

ScrubLoad  == \E url \in {UrlMp4, UrlHlsPlain}, supported \in BOOLEAN,
                 playOk \in BOOLEAN :
                 playVideo(url, supported, supported, FALSE, playOk, TRUE)

ScrubNext ==
  \/ ScrubLoad
  \/ TimeUpdate
  \/ ScrubStart
  \/ ScrubMove
  \/ ScrubEnd

ScrubSpec == Init /\ [][ScrubNext]_vars

\* Fair delivery without a further 'play' or 'playing' event: the surface
\* reports its data and moves its position while it plays, and a timeout that
\* was set expires.  A 'play' or 'playing' event follows a request to play or
\* the end of a stall; nothing makes the surface repeat one.
UnmuteFairSpec ==
  /\ Init /\ [][Next]_vars
  /\ WF_vars(OnDataReady)
  /\ WF_vars(TimeAdvances)
  /\ WF_vars(UnmuteTimerFires)

\* The mute controls: loads, the events of the surface that schedule the
\* unmute, the timeout, play and pause, and the user's mute button, M key and
\* volume slider.
VolumeInput == \E zero \in BOOLEAN : volumeInput(zero)

MuteNext ==
  \/ Load
  \/ OnDataReady
  \/ EvPlaying
  \/ EvPlay
  \/ TimeAdvances
  \/ UnmuteTimerFires
  \/ Toggle
  \/ toggleMute
  \/ VolumeInput

MuteSpec == Init /\ [][MuteNext]_vars

\* C1: at most one engine instance is constructed and not destroyed; it is
\* the active one; after a load that does not take the engine path none is
\* alive, and a load that constructs one has first destroyed the previous.
C1_AtMostOneEngine ==
  /\ Cardinality(alive) <= 1
  /\ alive = (IF hlsInstance = 0 THEN {} ELSE {hlsInstance})
  /\ (IsLoad /\ last.kind # "engine") => alive = {}
  /\ (IsLoad /\ last.kind = "engine") => alive = {constructed}
C1_Witness ==
  /\ IsLoad /\ last.kind = "engine" /\ constructed = 2
  /\ calls = <<"destroy", "new Hls">>

\* C2: an engine event from an instance a later load destroyed is ignored: it
\* changes neither the surface, nor the view, nor the active engine, calls no
\* engine method and does not throw.
C2_StaleEventIgnored ==
  [][(last'.stale /\ last'.op \in {"manifestParsed", "audioTrackLoaded", "engineError"})
       => /\ UNCHANGED <<ctlVars, viewVars, surfVars, engVars, envVars>>
          /\ calls' = <<>>
          /\ ~threw']_vars

\* C3: a fatal network error handled while an engine is active calls
\* startLoad() on it exactly once, within the handler, calls nothing else,
\* and leaves the error display and the loading indicator as they were.
C3_NetworkFatalReloadsOnce ==
  [][(last'.op = "engineError" /\ last'.kind = "networkError" /\ EngineActive)
       => /\ calls' = <<"startLoad">>
          /\ ~threw'
          /\ UNCHANGED <<hlsInstance, viewVars, surfVars, engVars>>]_vars
C3_Witness ==
  /\ IsEngineError /\ last.kind = "networkError" /\ ~last.stale
  /\ calls = <<"startLoad">> /\ spinnerActive /\ ~errorActive

\* C4: a fatal media error handled while an engine is active calls
\* recoverMediaError() exactly once and nothing else, shows no error, and
\* the recovery calls made equal the fatal media errors handled.
C4_MediaFatalRecoversOnce ==
  [][/\ recoverBalance' = 0
     /\ (last'.op = "engineError" /\ last'.kind = "mediaError" /\ EngineActive)
          => /\ calls' = <<"recoverMediaError">>
             /\ ~threw'
             /\ UNCHANGED <<hlsInstance, viewVars, surfVars, engVars>>]_vars
C4_Witness ==
  /\ IsEngineError /\ last.kind = "mediaError" /\ ~last.stale
  /\ calls = <<"recoverMediaError">> /\ ~errorActive

\* C5: a fatal error that is neither a network nor a media error shows
\* "HLS fatal error: " followed by the detail string, or by "unknown" when
\* the event carries none, hides the loading indicator and calls no engine
\* method.
C5_OtherFatalIsShown ==
  (IsEngineError /\ last.kind = "otherError")
    => /\ errorActive
       /\ ~spinnerActive
       /\ errorMsg = <<"HLS fatal error: ",
                       IF last.info[1] = "undefined" THEN "unknown" ELSE last.info[1]>>
       /\ calls = <<>>
       /\ ~threw
C5_Witness ==
  /\ IsEngineError /\ last.kind = "otherError" /\ ~last.stale
  /\ last.info = <<"undefined">> /\ errorMsg = <<"HLS fatal error: ", "unknown">>

\* C6: a non-fatal engine error of any type leaves the controller, the view,
\* the surface and the engine unchanged and calls no engine method.
C6_NonFatalChangesNothing ==
  [][(last'.op = "engineError" /\ last'.kind = "nonFatal")
       => /\ UNCHANGED <<ctlVars, viewVars, surfVars, engVars, envVars, libVars, uiVars, userMuted, recoverBalance>>
          /\ calls' = <<>>
          /\ ~threw']_vars
C6_Witness ==
  /\ IsEngineError /\ last.kind = "nonFatal" /\ last.info = <<"mediaError">>
  /\ ~last.stale /\ spinnerActive

\* C7: for an HLS URL the engine is constructed iff Hls is defined and
\* supported; otherwise the source is attached natively iff the surface can
\* play the HLS MIME type; otherwise no source is attached and an error is
\* displayed.
C7_HlsPrecedence ==
  (IsLoad /\ last.info[1] = "hls")
    => LET p == last.info[2]
           engine == p.defined /\ p.supported
       IN  /\ EngineActive <=> engine
           /\ (videoSrc = "engine") <=> engine
           /\ ~engine => ((videoSrc = "native") <=> p.native)
           /\ (~engine /\ ~p.native) => (videoSrc = "none" /\ errorActive)

\* C8: the loading indicator, once shown, is eventually hidden.
C8_LeavesLoading == spinnerActive ~> ~spinnerActive

C10_OneUnmuteTimer ==
  /\ unmuteTimers <= 1
  /\ unmutePending <=> (unmuteTimers = 1)
C10_Witness ==
  /\ last.op \in {"play", "playing"} /\ last.kind = "skipped"
  /\ unmuteTimers = 1

\* C11: a load tears down the pending unmute timer: once loadVideo has
\* returned no timer set before it is pending, so none can fire after the
\* load and none can unmute the newly loaded source.
C11_LoadClearsUnmuteTimer ==
  [][last'.op = "load" => (unmuteTimers' = 0 /\ ~unmutePending')]_vars

\* C12: once the library has torn the session down (deleteVideo of the video
\* being played, or clearAll) no engine instance is alive and neither the
\* telemetry interval nor the controls' hide timeout is pending.
C12_TeardownLeavesNothing ==
  last.op = "teardown"
    => /\ alive = {} /\ hlsInstance = 0
       /\ liveIntervals = 0 /\ ~statsInterval
       /\ hideTimers = 0

\* C13: the telemetry interval is live iff the panel is open, at most one is
\* live, the handle is held iff one is live, a load leaves the panel closed,
\* and a snapshot is only ever built with the panel open.
C13_PollsOnlyWhileOpen ==
  /\ liveIntervals <= 1
  /\ statsPanelActive <=> (liveIntervals = 1)
  /\ statsInterval <=> (liveIntervals = 1)
  /\ last.op \in {"load", "closeStats"} => (~statsPanelActive /\ liveIntervals = 0)
  /\ (last.op = "toggleStats" /\ last.kind = "close") => liveIntervals = 0
  /\ last.op = "updateStats" => statsPanelActive
C13_Witness ==
  /\ last.op = "toggleStats" /\ last.kind = "close"
  /\ ~statsPanelActive /\ liveIntervals = 0 /\ hlsInstance # 0

\* C14 as stated: whatever the delivery kind, the surface is muted at the
\* moment a load sets the source on it or hands it to the engine.
C14_MutedWhenAttached ==
  (IsLoad /\ videoSrc # "none") => last.info[3]

\* C14, amended: the surface is muted when the source is attached for an HLS
\* or a DASH URL, through the engine or natively, and unmuted again when it is
\* attached for a Progressive URL; it stays so until loadVideo returns.
C14_MutedUnlessProgressive ==
  (IsLoad /\ videoSrc # "none")
    => /\ last.info[3] <=> (last.info[1] # "progressive")
       /\ muted = last.info[3]
C14_Witness ==
  /\ IsLoad /\ last.info[1] = "progressive" /\ videoSrc = "native"
  /\ ~last.info[3] /\ ~muted

\* C15: a load of a Progressive URL constructs no engine, leaves none alive,
\* sets the source on the surface directly, returns with the surface unmuted,
\* the loading indicator shown and no error shown; the 'playing' event hides
\* the indicator and shows no error; and while no engine is active the error
\* display is entered only on the surface's 'error' event, so a Progressive
\* source that does not fail goes from Loading to Playing without an error.
C15_ProgressivePath ==
  [][/\ (last'.op = "load" /\ last'.info[1] = "progressive")
          => /\ hlsInstance' = 0 /\ alive' = {} /\ constructed' = constructed
             /\ videoSrc' = "native" /\ ~muted'
             /\ spinnerActive' /\ ~errorActive'
     /\ last'.op = "playing" => (~spinnerActive' /\ ~errorActive')
     /\ (~errorActive /\ errorActive' /\ hlsInstance' = 0 /\ last'.op # "load")
          => last'.op = "error"]_vars
C15_Witness ==
  /\ IsLoad /\ last.info[1] = "progressive" /\ calls = <<"destroy">>
  /\ videoSrc = "native" /\ spinnerActive

\* C16: a URL whose path extension, query string ignored and letter case
\* aside, is m3u8, or that contains ".m3u8", is classified HLS; otherwise one
\* whose extension is mpd or that contains ".mpd" is classified DASH; every
\* other URL is classified Progressive; the classification never fails.
\* The path extension is what follows the last "." of the URL without its
\* query and fragment, when no "/" follows that ".".
C16_PathOf(url) == SplitFirst(SplitFirst(url, "?"), "#")
C16_ExtOf(url) ==
  LET p == C16_PathOf(url)
      x == SplitPop(p, ".")
  IN  IF LastIndex(p, ".") = 0 \/ (\E i \in 1..Len(x) : x[i] = "/") THEN <<>>
      ELSE ToLowerCase(x)
C16_KindOf(url) ==
  IF C16_ExtOf(url) = ExtM3u8 \/ Includes(url, DotM3u8) THEN "hls"
  ELSE IF C16_ExtOf(url) = ExtMpd \/ Includes(url, DotMpd) THEN "dash"
  ELSE "progressive"
C16_ClassifiesByExtension ==
  last.op = "classify"
    => /\ last.kind \in {"hls", "dash", "progressive"}
       /\ last.kind = C16_KindOf(last.info[1])

\* C17: a seek by delta from a position, with the duration known, moves to
\* position + delta when that lies in 0..duration, to 0 when it lies below
\* and to the duration when it lies above, so the position stays within
\* 0..duration; with the duration unknown it moves to 0.
C17_SeekClamps ==
  last.op = "seek"
    => LET ct   == last.info[1]
           d    == last.info[2]
           to   == ct + last.info[3]
           r    == last.info[4]
       IN  /\ d # NaN => /\ 0 <= r /\ r <= d
                         /\ r = (IF to < 0 THEN 0 ELSE IF to > d THEN d ELSE to)
           /\ d = NaN => r = 0
C17_Witness ==
  /\ last.op = "seek"
  /\ last.info \in {<<1, 4, 0 - 3, 0>>, <<3, 4, 2, 4>>}

\* C18: when the active engine reports a manifest that lists two audio
\* tracks with none selected, the MANIFEST_PARSED handler leaves the engine's
\* audio track at 0 and the surface unmuted, and it requests playback: the
\* surface plays once it accepts the request.
C18_ManifestForcesTrack ==
  (/\ last.op = "manifestParsed" /\ ~last.stale
   /\ last.kind = "noneActive" /\ audioTracks = 2)
    => /\ audioTrack = 0
       /\ ~muted
       /\ last.info[1] => ~paused
       /\ ~threw
C18_Witness ==
  /\ last.op = "manifestParsed" /\ ~last.stale
  /\ last.kind = "noneActive" /\ audioTracks = 2
  /\ audioTrack = 0 /\ last.info[1] /\ ~paused

\* C19: buffer-ahead is the end of the buffered range that holds the current
\* position (start <= position <= end) minus the position; it is absent when
\* no range holds the position, the empty list included.  No two ranges of a
\* normalised list hold the same position.
C19_BufferAheadOfHolder ==
  last.op = "bufferAhead"
    => LET b       == last.info[1]
           ct      == last.info[2]
           r       == last.info[3]
           holders == {i \in 1..Len(b) : b[i][1] <= ct /\ ct <= b[i][2]}
       IN  /\ Cardinality(holders) <= 1
           /\ holders = {} => ~r.some
           /\ \A i \in holders : r.some /\ r.v = b[i][2] - ct
C19_Witness ==
  /\ last.op = "bufferAhead"
  /\ last.info = << << <<0, 1>>, <<3, 5>> >>, 4, Some(1) >>

\* C20: a snapshot holds the "Dropped Frames" row, and with it the "Total
\* Frames" and "Drop Rate" rows, iff the surface offers
\* getVideoPlaybackQuality and the total frame count it reports is above 0.
IsSnapshot == \/ last.op = "updateStats"
              \/ last.op = "toggleStats" /\ last.kind = "open"
HasRow(rows, k) == \E i \in 1..Len(rows) : rows[i][1] = k
C20_DroppedFramesRow ==
  IsSnapshot
    => LET q      == last.info[1]
           rows   == last.info[3]
           frames == q.hasQuality /\ q.totalVideoFrames > 0
       IN  /\ HasRow(rows, "Dropped Frames") <=> frames
           /\ HasRow(rows, "Total Frames") <=> frames
           /\ HasRow(rows, "Drop Rate") <=> frames
C20_Witness ==
  /\ last.op = "updateStats"
  /\ last.info[1].hasQuality /\ last.info[1].totalVideoFrames = 0
  /\ ~HasRow(last.info[3], "Dropped Frames")

\* the keys of the rows updateStats builds from the engine
EngineKeys == {"Bitrate", "HLS Level", "Audio Codec", "Video Codec",
               "Est. Bandwidth", "Frag Buffer"}

\* C21: a snapshot built while no engine instance is active holds no row of
\* the engine (bitrate, rendition size, codecs, estimated bandwidth, forward
\* buffer), whatever a disposed instance would report, and holds the
\* resolution row iff both dimensions of the video are known and the time row
\* iff the duration is known.
C21_NoEngineRowsWithoutEngine ==
  (IsSnapshot /\ hlsInstance = 0)
    => LET q    == last.info[1]
           rows == last.info[3]
       IN  /\ \A k \in EngineKeys : ~HasRow(rows, k)
           /\ HasRow(rows, "Resolution") <=> (q.videoWidth # 0 /\ q.videoHeight # 0)
           /\ HasRow(rows, "Time") <=> (q.duration > 0)
C21_Witness ==
  /\ IsSnapshot /\ hlsInstance = 0 /\ constructed > 0
  /\ last.info[2] = DisposedEngineStats
  /\ HasRow(last.info[3], "Resolution") /\ HasRow(last.info[3], "Time")

\* C22: while a drag of the scrubber is in progress a 'timeupdate' event
\* leaves the played bar and the time label as they are, and only the moves of
\* the drag change them; once the drag is released a 'timeupdate' event with a
\* known duration sets both from the position of the surface again.
C22_DragFreezesProgress ==
  [][/\ (isDragging /\ last'.op = "timeupdate")
          => UNCHANGED <<playedBar, timeLabel>>
     /\ (isDragging /\ (playedBar' # playedBar \/ timeLabel' # timeLabel))
          => last'.op \in {"scrubStart", "scrubMove"}
     /\ (~isDragging /\ last'.op = "timeupdate" /\ ~NoDuration(last'.info[2]))
          => /\ playedBar' = PlayedPct(last'.info[1], last'.info[2])
             /\ timeLabel' = <<_fmt(last'.info[1], 1), _fmt(last'.info[2], 1)>>
    ]_vars
C22_Witness ==
  /\ isDragging /\ last.op = "timeupdate" /\ last.info[2] \in 1..MaxTime
  /\ playedBar # PlayedPct(last.info[1], last.info[2])
  /\ timeLabel # <<>> /\ timeLabel[1] # _fmt(last.info[1], 1)

\* C23: the MANIFEST_PARSED handler of the active engine sets the audio track
\* to 0 only when none is selected: a track that is selected when the event is
\* handled stays selected.
C23_ManifestKeepsActiveTrack ==
  (last.op = "manifestParsed" /\ ~last.stale /\ ~threw)
    => (last.kind = "active" => audioTrack = last.info[2])

\* C24: once a 'play' or 'playing' event has reported the start of playback
\* on a surface that was attached muted on the native path (DASH, native
\* HLS), the surface is unmuted in the end, its position moving past 0.1 s on
\* the way, unless it pauses or fails or a load or a teardown replaces its
\* source.  No further 'play' or 'playing' event is needed.
C24_PlayingLeadsToUnmuted ==
  (last.op \in {"play", "playing"} /\ muted /\ videoSrc = "native" /\ Playable /\ ~paused)
    ~> (\/ ~muted
        \/ paused \/ ~Playable
        \/ last.op \in {"load", "teardown"})

\* the texts of the codes MEDIA_ERR_ABORTED, MEDIA_ERR_NETWORK, MEDIA_ERR_DECODE
\* and MEDIA_ERR_SRC_NOT_SUPPORTED
FixedErrorTexts ==
  [c \in 1..4 |->
     CASE c = 1 -> <<"Playback aborted.", "">>
       [] c = 2 -> <<"Network error. Check the URL and your connection.", "">>
       [] c = 3 -> <<"Decoding error. Format may be unsupported.", "">>
       [] c = 4 -> <<"Source not supported or URL is invalid.", "">>]

\* C25: an 'error' event of the surface ends with the error overlay shown and
\* the spinner hidden, and the text shown depends on video.error alone: codes
\* 1 to 4 have a text each, and a code outside of them, like an absent
\* video.error, shows "Could not load video.".
C25_UnknownCodeShowsGeneric ==
  last.op = "error"
    => /\ errorActive /\ ~spinnerActive
       /\ errorMsg = IF last.info[1] \in 1..4 THEN FixedErrorTexts[last.info[1]]
                     ELSE <<"Could not load video.", "">>

\* C26: a 'progress' event that sets the buffered-range indicator sets it from
\* the end of the last buffered range that holds the current position or lies
\* after it; a range that ends before the position never determines it.
C26_BufferBarFromRangeAhead ==
  (last.op = "progress" /\ last.info[4].some)
    => LET b     == last.info[1]
           ct    == last.info[2]
           ahead == {i \in 1..Len(b) : b[i][2] >= ct}
       IN  /\ ahead # {}
           /\ last.info[4].v[1] = b[CHOOSE i \in ahead : \A j \in ahead : j <= i][2]

\* C27: the error overlay and the spinner are never active together: showing
\* an error hides the spinner and no later event of the surface, 'waiting'
\* included, shows it again while the error is displayed.
C27_ErrorExcludesSpinner == ~(errorActive /\ spinnerActive)

\* C28: a mute by the user (mute button, M key, volume slider at 0) is undone
\* by the user or replaced by a load, never by the controller on its own: no
\* timeout that a 'play' or 'playing' event set unmutes the surface after it.
C28_UserMuteStays ==
  [][(userMuted /\ muted /\ ~muted') => last'.op \in {"toggleMute", "volume", "load"}]_vars

\* C29: at most one hide timeout is pending, and controls that are shown
\* while the surface is paused are not hidden by any step: a timeout that was
\* set while playing does not hide them once playback has paused.
C29_NoAutoHideWhilePaused ==
  [][/\ hideTimers' <= 1
     /\ (paused /\ paused' /\ ~controlsHidden) => ~controlsHidden']_vars

====
